---- MODULE Spec2Model ----
(***************************************************************************)
(* A model of wyoming_google_stt: one client session (GoogleEventHandler), *)
(* the background streaming tasks it spawns (_streaming_transcription),    *)
(* the adapter (GoogleSpeechTranscriberAsync.transcribe_streaming) and the *)
(* remote recognition service, which is the nondeterministic environment.  *)
(*                                                                         *)
(* Scheduling is asyncio's: one step of the model is the code that runs    *)
(* between two suspension points of one coroutine.  The session's read     *)
(* loop calls handle_event for one event after the other and stops after   *)
(* the first call that returns False or raises.                            *)
(***************************************************************************)
EXTENDS Integers, Sequences, FiniteSets, TLC

(* ------------------------------ bounds --------------------------------- *)
\* events and faults of a short session beyond one utterance's start, audio
\* and stop: a capability query, a language override, a disconnect, a broken
\* connection, a cancellation
MaxExtras == 2
\* utterance-start events of a session that restarts its utterance
MaxStarts == 2
\* audio-data events beyond the queue capacity in a long session
ExtraFrames == 1
\* audio-data events of a short session
MaxShortFrames == 2
\* what a restarting session receives after its first utterance-start:
\* further utterance-starts, audio-data events and response messages, together
MaxRestartInputs == 2
\* response messages the remote service sends in one session
MaxResponses == 1
\* response messages folded into one transcript by the adapter alone
MaxFoldResponses == 3

(* ------------------------- program constants --------------------------- *)
\* asyncio.Queue(maxsize=16)
QueueMaxSize == 16
\* Python's None: the end-of-stream marker on the queue, an absent queue or
\* task reference.  Queue and task identities and audio frames are numbered
\* from 1.
None == 0

\* speech_config.language and the tags a language override may carry; the
\* empty tag stands for an override without a language
DefaultLanguage == "en-US"
OverrideTags == {"", "es-ES"}

TaskIds == 1..MaxStarts

(* --------------------------- text as data ------------------------------ *)
\* A text is a sequence of Unicode code points: "a b" is <<97, 32, 98>>.
EmptyText == << >>
\* The separator appended after every accumulated text: " "
Space == 32
\* The code points str.isspace() is true of, which str.strip() removes:
\* \t \n \v \f \r, U+001C..U+001F, the space, U+0085, U+00A0, U+1680,
\* U+2000..U+200A, U+2028, U+2029, U+202F, U+205F, U+3000.
Whitespace ==
    (9..13) \cup (28..32) \cup {133, 160, 5760} \cup (8192..8202)
        \cup {8232, 8233, 8239, 8287, 12288}
IsSpace(c) == c \in Whitespace

\* str.strip(): drop leading, then trailing whitespace.
RECURSIVE LStrip(_)
LStrip(s) == IF s # << >> /\ IsSpace(Head(s)) THEN LStrip(Tail(s)) ELSE s
RECURSIVE RStrip(_)
RStrip(s) ==
    IF s # << >> /\ IsSpace(s[Len(s)]) THEN RStrip(SubSeq(s, 1, Len(s) - 1)) ELSE s
Strip(s) == RStrip(LStrip(s))

\* One result of a response: is_final and the ranked alternatives' texts.
Result(final, alts) == [is_final |-> final, alternatives |-> alts]

\* A fold that does not look at is_final.
AccumulateAnyResult(tr, result) ==
    IF result.alternatives # << >>
    THEN tr \o result.alternatives[1] \o <<Space>>
    ELSE tr

\* transcribe_streaming, lines 164-165: the body of the inner loop.
AccumulateResult(tr, result) ==
    IF result.is_final /\ result.alternatives # << >>
    THEN tr \o result.alternatives[1] \o <<Space>>
    ELSE tr

\* transcribe_streaming, line 163: the loop over one response's results.
RECURSIVE AccumulateResponse(_, _)
AccumulateResponse(tr, results) ==
    IF results = << >> THEN tr
    ELSE AccumulateResponse(AccumulateResult(tr, Head(results)), Tail(results))

\* A return without the strip.
ReturnedUnstripped(tr) == tr

\* transcribe_streaming, line 167
ReturnedTranscript(tr) == Strip(tr)

\* The responses the remote service may send in a session: none, a final
\* result with the alternatives "a" and "b", a result "b" that is not final.
SessionResponses ==
    { << >>,
      << Result(TRUE, << <<97>>, <<98>> >>) >>,
      << Result(FALSE, << <<98>> >>) >> }

(* ------------------------------ state ---------------------------------- *)
VARIABLES
    language,        \* self._language
    audio_queue,     \* self._audio_queue: a queue identity or None
    streaming_task,  \* self._streaming_task: a task identity or None
    hpc,             \* where the session's event loop stands
    hitem,           \* the item of a suspended queue put
    hret,            \* what the last finished handle_event call did
    queues,          \* queue identity -> its contents
    tpc,             \* task identity -> where the task stands
    tlang,           \* task -> language_code of its configuration
    reqst,           \* task -> state of its request generator
    waitq,           \* task -> the queue its suspended get waits on, or None
    sent,            \* task -> outbound messages handed to the remote call
    transcript,      \* task -> the adapter's local variable transcript
    received,        \* task -> the responses received so far
    adapterOut,      \* task -> how transcribe_streaming ended, and its result
    tpath,           \* task -> the branch of _streaming_transcription taken
    errlog,          \* task -> exceptions logged for it
    written,         \* events written to the client, in order
    writerBroken,    \* the connection no longer accepts writes
    nStarts,         \* utterance-start events handled
    nFrames,         \* audio-data events handled
    nExtras,         \* events and faults counted against MaxExtras
    profile,         \* the kind of session explored
    startLang,       \* task -> self._language when its utterance-start was handled
    accepted,        \* queue -> items whose put was called on it, in order
    cancelAt,        \* task -> where a cancellation reached it
    fin,             \* transcript fold: the responses still to fold
    fseen,           \* transcript fold: the responses folded
    facc,            \* transcript fold: the local variable transcript
    fout             \* transcript fold: the returned text, once returned

hvars == <<language, audio_queue, streaming_task, hpc, hitem, hret>>
tvars == <<tpc, tlang, reqst, waitq, sent, transcript, received, adapterOut, tpath,
           errlog>>
cvars == <<nStarts, nFrames, nExtras, profile>>
gvars == <<startLang, accepted, cancelAt>>
fvars == <<fin, fseen, facc, fout>>
vars == <<hvars, tvars, cvars, gvars, fvars, queues, written, writerBroken>>

(* ------------------------------ events --------------------------------- *)
\* Transcript(text=...).event(), tagged with the task that wrote it and the
\* line it was written from: "success" is line 83, "error" is line 91.
TranscriptEvent(text, t, path) ==
    [type |-> "transcript", text |-> text, task |-> t, path |-> path]
\* self.wyoming_info_event
InfoEvent == [type |-> "info", text |-> EmptyText, task |-> None, path |-> "describe"]

\* The outbound messages of request_generator.
ConfigRequest(lang) == [kind |-> "config", language |-> lang, content |-> None]
AudioRequest(chunk) == [kind |-> "audio", language |-> "", content |-> chunk]

Finished == {"done", "failed", "cancelled"}

(* --------------------------- initial state ----------------------------- *)
\* GoogleEventHandler.__init__: no queue, no task, the configured language.
HandlerInit ==
    /\ language = DefaultLanguage
    /\ audio_queue = None
    /\ streaming_task = None
    /\ hpc = "ready"
    /\ hitem = None
    /\ hret = "none"
    /\ queues = [q \in TaskIds |-> << >>]
    /\ tpc = [t \in TaskIds |-> "absent"]
    /\ tlang = [t \in TaskIds |-> ""]
    /\ reqst = [t \in TaskIds |-> "unused"]
    /\ waitq = [t \in TaskIds |-> None]
    /\ sent = [t \in TaskIds |-> << >>]
    /\ transcript = [t \in TaskIds |-> EmptyText]
    /\ received = [t \in TaskIds |-> << >>]
    /\ adapterOut = [t \in TaskIds |-> <<"pending">>]
    /\ tpath = [t \in TaskIds |-> "none"]
    /\ errlog = [t \in TaskIds |-> {}]
    /\ written = << >>
    /\ writerBroken = FALSE
    /\ nStarts = 0
    /\ nFrames = 0
    /\ nExtras = 0
    /\ startLang = [t \in TaskIds |-> ""]
    /\ accepted = [q \in TaskIds |-> << >>]
    /\ cancelAt = [t \in TaskIds |-> "none"]

FoldIdle ==
    /\ fin = << >>
    /\ fseen = << >>
    /\ facc = EmptyText
    /\ fout = <<"unset">>

\* The sessions explored.  A short session is one utterance of little audio
\* that receives every kind of event and suffers every fault, MaxExtras of
\* them; a long session is one utterance with enough audio to fill the
\* queue; a restarting session receives up to MaxStarts utterance-starts.
\* Long and restarting sessions receive utterance-start, audio-data and
\* utterance-stop events only.  In all of them the remote call may end or
\* fail at any time and any write may be suspended; the responses of a
\* session are bounded by MaxResponses, and in a restarting session by
\* MaxRestartInputs, which counts them together with the further
\* utterance-starts and the audio-data events.
Profiles == {"short", "long", "restart"}
LongSession == profile = "long"
ShortSession == profile = "short"
MayPerturb == ShortSession /\ nExtras < MaxExtras

Init == HandlerInit /\ FoldIdle /\ profile \in Profiles

(* ------------------------ the session handler -------------------------- *)
\* A queue created without a bound.
QueueNeverFull(q) == FALSE

\* asyncio.Queue.full() of a queue created with maxsize=16
QueueFull(q) == Len(q) >= QueueMaxSize

\* handle_event line 113: is there a queue to put the chunk on
ChunkHasQueue(aq) == aq # None

\* A chunk without a queue that ends the session.
IdleChunkEndsSession == "false"

\* handle_event lines 116-118: what a chunk without a queue returns
IdleChunkResult == "true"

\* AsyncEventHandler's read loop: it goes on after True and stops after False.
AfterReturn(ret) == IF ret = "true" THEN "ready" ELSE "closed"

\* An utterance-stop that keeps the session open.
StopKeepsSession == "true"

\* handle_event line 130: what an utterance-stop returns
StopResult == "false"

\* handle_event line 139: what an event of any other type returns
UnknownEventResult == "true"

\* An override that is applied whatever its tag.
OverrideAlwaysApplies(tag) == TRUE

\* handle_event line 134: does the override carry a language
OverrideApplies(tag) == tag # ""

\* The responses received in the session so far, by all its tasks.
RECURSIVE ResponsesOfFirst(_)
ResponsesOfFirst(n) == IF n = 0 THEN 0 ELSE Len(received[n]) + ResponsesOfFirst(n - 1)
ResponsesSoFar == ResponsesOfFirst(MaxStarts)
\* What a restarting session has received after its first utterance-start.
RestartInputs == (nStarts - 1) + nFrames + ResponsesSoFar

\* The bounds on the client's events (see the bounds above).
MayStart ==
    \/ nStarts = 0
    \/ profile = "restart" /\ nStarts < MaxStarts /\ RestartInputs < MaxRestartInputs
MaySendFrame ==
    IF LongSession THEN nStarts > 0 /\ nFrames < QueueMaxSize + ExtraFrames
    ELSE IF ShortSession THEN nFrames < MaxShortFrames
    ELSE nStarts > 0 /\ RestartInputs < MaxRestartInputs

\* handle_event lines 95-98: Describe.  The write of line 96 returns or
\* raises at once, or is suspended.
HandleDescribe ==
    /\ hpc = "ready"
    /\ MayPerturb
    /\ nExtras' = nExtras + 1
    /\ written' = (IF writerBroken THEN written ELSE Append(written, InfoEvent))
    /\ \/ hpc' = "write_info" /\ UNCHANGED hret
       \/ IF writerBroken
          THEN hpc' = "crashed" /\ hret' = "raised_write"
          ELSE hpc' = "ready" /\ hret' = "true"
    /\ UNCHANGED <<language, audio_queue, streaming_task, hitem, queues, tvars,
                   writerBroken, nStarts, nFrames, profile, gvars, fvars>>

\* handle_event line 96 resumed: the write returns and line 98 returns True,
\* or the write raises.
DescribeResume ==
    /\ hpc = "write_info"
    /\ IF writerBroken
       THEN hpc' = "crashed" /\ hret' = "raised_write"
       ELSE hpc' = "ready" /\ hret' = "true"
    /\ UNCHANGED <<language, audio_queue, streaming_task, hitem, queues, tvars,
                   written, writerBroken, cvars, gvars, fvars>>

\* handle_event lines 100-109: AudioStart
HandleAudioStart ==
    /\ hpc = "ready"
    /\ MayStart
    /\ LET id == nStarts + 1 IN
       /\ nStarts' = id
       /\ audio_queue' = id
       /\ streaming_task' = id
       /\ tpc' = [tpc EXCEPT ![id] = "created"]
       /\ startLang' = [startLang EXCEPT ![id] = language]
    /\ hret' = "true"
    /\ UNCHANGED <<language, hpc, hitem, queues, tlang, reqst, waitq, sent, transcript,
                   received, adapterOut, tpath, errlog, written, writerBroken, nFrames,
                   nExtras, profile, accepted, cancelAt, fvars>>

\* handle_event lines 111-118: AudioChunk
HandleAudioChunk ==
    /\ hpc = "ready"
    /\ MaySendFrame
    /\ nFrames' = nFrames + 1
    /\ LET chunk == nFrames + 1 IN
       IF ChunkHasQueue(audio_queue)
       THEN /\ accepted' = [accepted EXCEPT ![audio_queue] = Append(@, chunk)]
            /\ IF QueueFull(queues[audio_queue])
               THEN hpc' = "put_chunk" /\ hitem' = chunk /\ UNCHANGED <<queues, hret>>
               ELSE /\ queues' = [queues EXCEPT ![audio_queue] = Append(@, chunk)]
                    /\ hret' = "true"
                    /\ UNCHANGED <<hpc, hitem>>
       ELSE /\ hret' = IdleChunkResult
            /\ hpc' = AfterReturn(IdleChunkResult)
            /\ UNCHANGED <<hitem, queues, accepted>>
    /\ UNCHANGED <<language, audio_queue, streaming_task, tvars, written, writerBroken,
                   nStarts, nExtras, profile, startLang, cancelAt, fvars>>

\* A stop that clears the task reference and keeps the queue reference.
StopClearsTaskOnly ==
    /\ hpc' = AfterReturn(StopResult) /\ hret' = StopResult
    /\ streaming_task' = None
    /\ UNCHANGED audio_queue

\* handle_event lines 125-130, once the put of line 124 has returned: await
\* the task (an already finished task is not waited for), clear both
\* references, end the session.  A task that ended with an exception or was
\* cancelled makes the await raise that exception.
SettleStop ==
    IF streaming_task # None /\ tpc[streaming_task] \notin Finished
    THEN hpc' = "await_task" /\ UNCHANGED <<audio_queue, streaming_task, hret>>
    ELSE IF streaming_task # None /\ tpc[streaming_task] = "failed"
    THEN hpc' = "crashed" /\ hret' = "raised_task"
         /\ UNCHANGED <<audio_queue, streaming_task>>
    ELSE IF streaming_task # None /\ tpc[streaming_task] = "cancelled"
    THEN hpc' = "crashed" /\ hret' = "cancelled"
         /\ UNCHANGED <<audio_queue, streaming_task>>
    ELSE hpc' = AfterReturn(StopResult) /\ hret' = StopResult /\ audio_queue' = None
         /\ streaming_task' = None

\* handle_event lines 120-124: AudioStop up to the put of the end marker
HandleAudioStop ==
    /\ hpc = "ready"
    /\ IF audio_queue # None
       THEN /\ accepted' = [accepted EXCEPT ![audio_queue] = Append(@, None)]
            /\ IF QueueFull(queues[audio_queue])
               THEN /\ hpc' = "put_none" /\ hitem' = None
                    /\ UNCHANGED <<queues, audio_queue, streaming_task, hret>>
               ELSE /\ queues' = [queues EXCEPT ![audio_queue] = Append(@, None)]
                    /\ SettleStop
                    /\ UNCHANGED hitem
       ELSE SettleStop /\ UNCHANGED <<queues, accepted, hitem>>
    /\ UNCHANGED <<language, tvars, written, writerBroken, cvars, startLang,
                   cancelAt, fvars>>

\* asyncio.Queue.put resumed: the queue has room again (lines 115 and 124)
PutResume ==
    /\ hpc \in {"put_chunk", "put_none"}
    /\ ~QueueFull(queues[audio_queue])
    /\ queues' = [queues EXCEPT ![audio_queue] = Append(@, hitem)]
    /\ hitem' = None
    /\ IF hpc = "put_chunk"
       THEN hpc' = "ready" /\ hret' = "true" /\ UNCHANGED <<audio_queue, streaming_task>>
       ELSE SettleStop
    /\ UNCHANGED <<language, tvars, written, writerBroken, cvars, gvars, fvars>>

\* handle_event line 127 resumed: the awaited task has finished
AwaitResume ==
    /\ hpc = "await_task"
    /\ tpc[streaming_task] \in Finished
    /\ SettleStop
    /\ UNCHANGED <<language, hitem, queues, tvars, written, writerBroken, cvars,
                   gvars, fvars>>

\* handle_event lines 132-137: Transcribe
HandleTranscribe(tag) ==
    /\ hpc = "ready"
    /\ IF tag = "" THEN ShortSession ELSE MayPerturb
    /\ nExtras' = (IF tag = "" THEN nExtras ELSE nExtras + 1)
    /\ language' = (IF OverrideApplies(tag) THEN tag ELSE language)
    /\ hret' = "true"
    /\ UNCHANGED <<audio_queue, streaming_task, hpc, hitem, queues, tvars, written,
                   writerBroken, nStarts, nFrames, profile, gvars, fvars>>

\* handle_event line 139: any other event type
HandleOther ==
    /\ hpc = "ready"
    /\ ShortSession
    /\ hret' = UnknownEventResult
    /\ hpc' = AfterReturn(UnknownEventResult)
    /\ UNCHANGED <<language, audio_queue, streaming_task, hitem, queues, tvars,
                   written, writerBroken, cvars, gvars, fvars>>

\* The client closes the connection: the read loop ends without an event.
ClientDisconnect ==
    /\ hpc = "ready"
    /\ MayPerturb
    /\ nExtras' = nExtras + 1
    /\ hpc' = "disconnected"
    /\ UNCHANGED <<language, audio_queue, streaming_task, hitem, hret, queues, tvars,
                   written, writerBroken, nStarts, nFrames, profile, gvars, fvars>>

\* The connection stops accepting writes: write_event raises from now on.
WriterBreaks ==
    /\ MayPerturb
    /\ ~writerBroken
    /\ nExtras' = nExtras + 1
    /\ writerBroken' = TRUE
    /\ UNCHANGED <<hvars, tvars, nStarts, nFrames, profile, gvars, fvars, queues,
                   written>>

(* ----------------------- the background task --------------------------- *)
\* _streaming_transcription line 75: the language the task hands to the
\* adapter is self._language as it is when the task's first step runs.
ConfigLanguage(current, atStart) == current

\* line 83: the event written after transcribe_streaming has returned
SuccessEvents(t, text) == << TranscriptEvent(text, t, "success") >>
\* An error branch that writes nothing.
NoErrorEvents(t) == << >>

\* line 91: the event written after transcribe_streaming has raised
ErrorEvents(t) == << TranscriptEvent(EmptyText, t, "error") >>

\* A cancellation handled by the except Exception branch.
CancelIsException == TRUE

\* except asyncio.CancelledError (line 86) comes before except Exception
\* (line 89), and transcribe_streaming's handlers (lines 169-174) catch
\* Exception only: a cancellation reaches line 88 without an error log.
CancelCaughtAsError == FALSE

\* write_event hands the event to the connection and then waits until the
\* connection has drained: the event counts as written when the connection
\* is not broken at the call; the call returns, or raises on a broken
\* connection, either at once or after a suspension during which other
\* coroutines run.

\* _streaming_transcription line 91: the write of the empty transcript.
WriteEmpty(t) ==
    /\ written' = (IF writerBroken THEN written ELSE written \o ErrorEvents(t))
    /\ \E suspends \in BOOLEAN :
        tpc' = [tpc EXCEPT ![t] = IF suspends THEN "write_empty"
                                  ELSE IF writerBroken THEN "failed" ELSE "done"]

\* _streaming_transcription lines 89-91: an Exception raised in the try block
\* is logged and answered with an empty transcript; an exception of that
\* write leaves the task.
CaughtException(t, logs) ==
    /\ errlog' = [errlog EXCEPT ![t] = @ \cup logs]
    /\ tpath' = [tpath EXCEPT ![t] = "error"]
    /\ WriteEmpty(t)

\* _streaming_transcription lines 83-84 once transcribe_streaming has
\* returned text: the write of the transcript.  A write that raises is an
\* Exception in the try block.
FinishReturned(t, text) ==
    /\ adapterOut' = [adapterOut EXCEPT ![t] = <<"returned", text>>]
    /\ IF ~writerBroken
       THEN /\ written' = written \o SuccessEvents(t, text)
            /\ UNCHANGED errlog
            /\ \/ /\ tpc' = [tpc EXCEPT ![t] = "done"]
                  /\ tpath' = [tpath EXCEPT ![t] = "success"]
               \/ /\ tpc' = [tpc EXCEPT ![t] = "write_text"]
                  /\ UNCHANGED tpath
       ELSE \/ CaughtException(t, {"task"})
            \/ /\ tpc' = [tpc EXCEPT ![t] = "write_text"]
               /\ UNCHANGED <<written, tpath, errlog>>

\* transcribe_streaming lines 169-174 and _streaming_transcription lines
\* 89-91 once an Exception was raised in the exchange: both log it, the task
\* writes an empty transcript.
FinishRaised(t, kind) ==
    /\ adapterOut' = [adapterOut EXCEPT ![t] = <<"raised">>]
    /\ CaughtException(t, {"adapter", "task"})

\* A write of the task resumed: line 83 returns and the task ends at line
\* 84, or raises into line 89; line 91 returns or raises and the task ends.
WriteResume(t) ==
    /\ tpc[t] \in {"write_text", "write_empty"}
    /\ IF tpc[t] = "write_text"
       THEN IF writerBroken
            THEN CaughtException(t, {"task"})
            ELSE /\ tpc' = [tpc EXCEPT ![t] = "done"]
                 /\ tpath' = [tpath EXCEPT ![t] = "success"]
                 /\ UNCHANGED <<errlog, written>>
       ELSE /\ tpc' = [tpc EXCEPT ![t] = IF writerBroken THEN "failed" ELSE "done"]
            /\ UNCHANGED <<tpath, errlog, written>>
    /\ UNCHANGED <<hvars, queues, tlang, reqst, waitq, sent, transcript, received,
                   adapterOut, writerBroken, cvars, gvars, fvars>>

\* The first step of the task: lines 70-82 and transcribe_streaming lines
\* 132-160, up to the await of the remote call.  The event loop runs the
\* first steps of the tasks in the order of their creation.  The assert of
\* line 70 stands before the try: its failure leaves the task, which then
\* writes and logs nothing.
TaskStart(t) ==
    /\ tpc[t] = "created"
    /\ \A u \in TaskIds : u < t => tpc[u] # "created"
    /\ IF audio_queue = None
       THEN /\ tpc' = [tpc EXCEPT ![t] = "failed"]
            /\ UNCHANGED <<tlang, reqst, adapterOut, tpath, errlog, written>>
       ELSE /\ tlang' = [tlang EXCEPT ![t] = ConfigLanguage(language, startLang[t])]
            /\ tpc' = [tpc EXCEPT ![t] = "exchange"]
            /\ reqst' = [reqst EXCEPT ![t] = "open"]
            /\ UNCHANGED <<adapterOut, tpath, errlog, written>>
    /\ UNCHANGED <<hvars, queues, waitq, sent, transcript, received, writerBroken,
                   cvars, gvars, fvars>>

\* _audio_generator line 62: the queue a get is made on is self._audio_queue
\* as it is when the get is called; a suspended get stays on its queue.
GetTarget(t) == IF waitq[t] # None THEN waitq[t] ELSE audio_queue

\* The remote call pulls the next request from request_generator (lines
\* 145-153): the configuration first, then one message per chunk that
\* _audio_generator (handler lines 58-66) takes from the queue.
RequestPull(t) ==
    /\ tpc[t] = "exchange"
    /\ reqst[t] = "open"
    /\ IF sent[t] = << >>
       THEN /\ sent' = [sent EXCEPT ![t] = << ConfigRequest(tlang[t]) >>]
            /\ UNCHANGED <<queues, waitq, reqst>>
       ELSE IF GetTarget(t) = None
       THEN /\ reqst' = [reqst EXCEPT ![t] = "failed"]
            /\ UNCHANGED <<queues, waitq, sent>>
       ELSE LET q == GetTarget(t) IN
            IF queues[q] = << >>
            THEN /\ waitq[t] = None
                 /\ waitq' = [waitq EXCEPT ![t] = q]
                 /\ UNCHANGED <<queues, sent, reqst>>
            ELSE /\ queues' = [queues EXCEPT ![q] = Tail(@)]
                 /\ waitq' = [waitq EXCEPT ![t] = None]
                 /\ IF Head(queues[q]) = None
                    THEN reqst' = [reqst EXCEPT ![t] = "closed"] /\ UNCHANGED sent
                    ELSE /\ sent' = [sent EXCEPT ![t] =
                                        Append(@, AudioRequest(Head(queues[q])))]
                         /\ UNCHANGED reqst
    /\ UNCHANGED <<hvars, tpc, tlang, transcript, received, adapterOut, tpath, errlog,
                   written, writerBroken, cvars, gvars, fvars>>

\* The bound on the responses of a session (see the bounds above).
MayRespond ==
    IF profile = "restart" THEN RestartInputs < MaxRestartInputs
    ELSE ResponsesSoFar < MaxResponses

\* transcribe_streaming lines 162-165: one response is received and folded.
RemoteResponds(t, resp) ==
    /\ tpc[t] = "exchange"
    /\ MayRespond
    /\ transcript' = [transcript EXCEPT ![t] = AccumulateResponse(@, resp)]
    /\ received' = [received EXCEPT ![t] = Append(@, resp)]
    /\ UNCHANGED <<hvars, queues, tpc, tlang, reqst, waitq, sent, adapterOut, tpath,
                   errlog, written, writerBroken, cvars, gvars, fvars>>

\* The response stream ends normally: line 167 returns, the task goes on.
RemoteEnds(t) ==
    /\ tpc[t] = "exchange"
    /\ reqst[t] # "failed"
    /\ FinishReturned(t, ReturnedTranscript(transcript[t]))
    /\ UNCHANGED <<hvars, queues, tlang, reqst, waitq, sent, transcript, received,
                   writerBroken, cvars, gvars, fvars>>

\* The remote call, the request stream or the response stream fails: a
\* GoogleAPIError ("api") or another Exception ("local") is raised in
\* transcribe_streaming.
RemoteFails(t, kind) ==
    /\ tpc[t] = "exchange"
    /\ reqst[t] = "failed" => kind = "local"
    /\ FinishRaised(t, kind)
    /\ UNCHANGED <<hvars, queues, tlang, reqst, waitq, sent, transcript, received,
                   writerBroken, cvars, gvars, fvars>>

\* The task is cancelled (task.cancel() by the event loop's shutdown).  A
\* task that has not run its first step ends cancelled; a task suspended in
\* the try block (the exchange, the write of line 83) gets CancelledError at
\* its await and ends at line 88; in the write of line 91 no handler catches
\* it and the task ends cancelled.
CancelTask(t) ==
    /\ MayPerturb
    /\ nExtras' = nExtras + 1
    /\ tpc[t] \in {"created", "exchange", "write_text", "write_empty"}
    /\ cancelAt' = [cancelAt EXCEPT ![t] = tpc[t]]
    /\ IF tpc[t] \in {"created", "write_empty"}
       THEN /\ tpc' = [tpc EXCEPT ![t] = "cancelled"]
            /\ UNCHANGED <<adapterOut, tpath, errlog, written>>
       ELSE IF CancelCaughtAsError
       THEN FinishRaised(t, "local")
       ELSE /\ tpc' = [tpc EXCEPT ![t] = "done"]
            /\ tpath' = [tpath EXCEPT ![t] = "cancel"]
            /\ adapterOut' = [adapterOut EXCEPT ![t] =
                                 IF tpc[t] = "exchange" THEN <<"cancelled">> ELSE @]
            /\ UNCHANGED <<errlog, written>>
    /\ UNCHANGED <<hvars, queues, tlang, reqst, waitq, sent, transcript, received,
                   writerBroken, nStarts, nFrames, profile, startLang, accepted,
                   fvars>>

(* --------------------------- specification ----------------------------- *)
ClientEvent ==
    \/ HandleDescribe
    \/ HandleAudioStart
    \/ HandleAudioChunk
    \/ HandleAudioStop
    \/ \E tag \in OverrideTags : HandleTranscribe(tag)
    \/ HandleOther
    \/ ClientDisconnect

HandlerResumes == PutResume \/ AwaitResume

TaskStep(t) ==
    \/ TaskStart(t)
    \/ RequestPull(t)
    \/ \E resp \in SessionResponses : RemoteResponds(t, resp)
    \/ RemoteEnds(t)
    \/ \E kind \in {"api", "local"} : RemoteFails(t, kind)
    \/ WriteResume(t)

Next ==
    \/ ClientEvent
    \/ HandlerResumes
    \/ DescribeResume
    \/ \E t \in TaskIds : TaskStep(t)
    \/ \E t \in TaskIds : CancelTask(t)
    \/ WriterBreaks

Spec == Init /\ [][Next]_vars

(* ------------------- the transcript fold on its own -------------------- *)
\* The responses folded when transcribe_streaming is explored alone: empty
\* responses, final and non-final results, results without alternatives,
\* texts that are empty or begin and end with whitespace: " b ", and
\* "\t" U+3000 "c a" U+00A0 "\n".
FoldResponses ==
    { << >>,
      << Result(TRUE, << <<97>> >>) >>,
      << Result(TRUE, << <<32, 98, 32>>, <<97>> >>) >>,
      << Result(TRUE, << <<9, 12288, 99, 32, 97, 160, 10>> >>) >>,
      << Result(FALSE, << <<99>> >>), Result(TRUE, << EmptyText >>) >>,
      << Result(TRUE, << >>) >>,
      << Result(TRUE, << <<98>> >>), Result(TRUE, << <<99>> >>) >> }

RECURSIVE SeqsUpTo(_, _)
SeqsUpTo(S, n) ==
    IF n = 0 THEN { << >> }
    ELSE LET shorter == SeqsUpTo(S, n - 1)
         IN shorter \cup { Append(q, x) : q \in shorter, x \in S }

InitFold ==
    /\ HandlerInit
    /\ profile = "short"
    /\ nExtras = 0
    /\ fin \in SeqsUpTo(FoldResponses, MaxFoldResponses)
    /\ fseen = << >>
    /\ facc = EmptyText
    /\ fout = <<"unset">>

\* transcribe_streaming lines 162-165: the next response is folded.
FoldStep ==
    /\ fin # << >>
    /\ facc' = AccumulateResponse(facc, Head(fin))
    /\ fseen' = Append(fseen, Head(fin))
    /\ fin' = Tail(fin)
    /\ UNCHANGED <<hvars, tvars, cvars, gvars, queues, written, writerBroken, fout>>

\* transcribe_streaming line 167: the response stream has ended.
FoldReturn ==
    /\ fin = << >>
    /\ fout = <<"unset">>
    /\ fout' = <<"returned", ReturnedTranscript(facc)>>
    /\ UNCHANGED <<hvars, tvars, cvars, gvars, queues, written, writerBroken, fin,
                   fseen, facc>>

NextFold == FoldStep \/ FoldReturn
FoldSpec == InitFold /\ [][NextFold]_vars

(* ------------------ what the claims say, stated apart ------------------ *)
\* All results of a sequence of responses, in the order received.
RECURSIVE AllResults(_)
AllResults(responses) ==
    IF responses = << >> THEN << >>
    ELSE Head(responses) \o AllResults(Tail(responses))

\* The first alternative's text of every final result, in order.
RECURSIVE FinalFirstTexts(_)
FinalFirstTexts(results) ==
    IF results = << >> THEN << >>
    ELSE LET r == Head(results)
             rest == FinalFirstTexts(Tail(results))
         IN IF r.is_final /\ Len(r.alternatives) > 0
            THEN << r.alternatives[1] >> \o rest
            ELSE rest

\* Texts joined by one space.
RECURSIVE JoinBySpace(_)
JoinBySpace(texts) ==
    IF texts = << >> THEN EmptyText
    ELSE IF Len(texts) = 1 THEN texts[1]
    ELSE texts[1] \o <<32>> \o JoinBySpace(Tail(texts))

\* A text without its leading and trailing whitespace.
Trim(s) ==
    LET solid == { i \in 1..Len(s) : s[i] \notin Whitespace }
    IN IF solid = {} THEN EmptyText
       ELSE SubSeq(s, CHOOSE i \in solid : \A j \in solid : i <= j,
                      CHOOSE i \in solid : \A j \in solid : i >= j)

ExpectedTranscript(responses) == Trim(JoinBySpace(FinalFirstTexts(AllResults(responses))))

\* The transcript-result events a task has written.
TranscriptsOf(t) ==
    SelectSeq(written, LAMBDA e : e.type = "transcript" /\ e.task = t)

(* ------------------------- fair scheduling ----------------------------- *)
\* Sessions without faults: the client sends utterance-start, audio-data and
\* utterance-stop events, nothing is cancelled and the connection holds.
NextNoFault ==
    \/ HandleAudioStart
    \/ HandleAudioChunk
    \/ HandleAudioStop
    \/ HandlerResumes
    \/ \E t \in TaskIds : TaskStep(t)

\* asyncio runs every coroutine that is ready; the remote call keeps pulling
\* requests and eventually ends its response stream, normally or not.
Fairness ==
    /\ WF_vars(HandlerResumes)
    /\ \A t \in TaskIds :
        /\ WF_vars(TaskStart(t))
        /\ WF_vars(RequestPull(t))
        /\ WF_vars(WriteResume(t))
        /\ WF_vars(RemoteEnds(t) \/ \E kind \in {"api", "local"} : RemoteFails(t, kind))

LiveSpec == Init /\ [][NextNoFault]_vars /\ Fairness

(* ------------------------------- claims -------------------------------- *)
\* The utterance an utterance-stop belongs to: the one started last.
StoppedUtterance == nStarts
StopReturned == hpc = "closed" /\ hret = "false"

\* C1: every utterance yields exactly one transcript-result event, whatever
\* the adapter's outcome.  No task ever writes two; a task that has ended
\* without being cancelled has written exactly one, which carries the
\* text the remote service's final results spell when the adapter returned
\* and the empty text when it raised; and when the handling of the
\* utterance-stop has returned, that one event of its utterance is written.
C1_OneTranscriptPerUtterance ==
    \A t \in TaskIds :
        /\ Len(TranscriptsOf(t)) <= 1
        /\ (tpc[t] = "done" /\ cancelAt[t] = "none") =>
              /\ Len(TranscriptsOf(t)) = 1
              /\ adapterOut[t][1] = "returned" =>
                    TranscriptsOf(t)[1].text = ExpectedTranscript(received[t])
              /\ adapterOut[t][1] = "raised" => TranscriptsOf(t)[1].text = EmptyText
        /\ (StopReturned /\ t = StoppedUtterance /\ cancelAt[t] = "none") =>
              Len(TranscriptsOf(t)) = 1

\* start, three audio frames, stop, one final result "a": one event, text "a"
C1_Witness ==
    /\ StopReturned
    /\ nStarts = 1
    /\ nFrames = 3
    /\ received[1] = << << Result(TRUE, << <<97>>, <<98>> >>) >> >>
    /\ written = << TranscriptEvent(<<97>>, 1, "success") >>

\* C2: no exception of the adapter task leaves the task, and the handling
\* of utterance-stop, which awaits the task, does not raise it.
C2_NoErrorLeavesTheTask ==
    /\ \A t \in TaskIds : tpc[t] # "failed"
    /\ hret # "raised_task"

\* C3: an utterance-stop handled in STREAMING eventually returns the
\* end-of-session signal with the queue and task references cleared.
StopInProgress == hpc \in {"put_none", "await_task"}
StopCompleted ==
    StopReturned /\ audio_queue = None /\ streaming_task = None
\* C3: a stop in progress leads to a stop that has returned with both
\* references cleared.
C3_StopEventuallyReturns == StopInProgress ~> StopCompleted

\* C4: the language of an utterance's configuration is the session language
\* at the moment its utterance-start was handled.
C4_LanguageFixedAtStart ==
    \A t \in TaskIds : reqst[t] # "unused" => tlang[t] = startLang[t]

\* The audio frames put on a queue, in order, and the messages they make.
FramesOf(q) == SelectSeq(accepted[q], LAMBDA x : x # None)
AudioRequests(frames) == [i \in 1..Len(frames) |-> AudioRequest(frames[i])]

\* C5: once the request stream of a stopped utterance of N frames has been
\* consumed to its end, the adapter has sent N+1 messages: the configuration,
\* then the N frames in the order the client sent them.
C5_ConfigThenFramesInOrder ==
    \A t \in TaskIds :
        (reqst[t] = "closed" /\ t = StoppedUtterance /\ Len(accepted[t]) > 0
            /\ accepted[t][Len(accepted[t])] = None) =>
        /\ Len(sent[t]) = Len(FramesOf(t)) + 1
        /\ sent[t] = << ConfigRequest(tlang[t]) >> \o AudioRequests(FramesOf(t))

\* C6: the returned transcript is the first alternatives' texts of the final
\* results, in the order received, joined by one space and trimmed.
C6_TranscriptIsTrimmedJoin ==
    fout # <<"unset">> => fout = <<"returned", ExpectedTranscript(fseen)>>

\* two final results in two responses and a result that is not final
C6_Witness ==
    /\ fout # <<"unset">>
    /\ Len(fseen) >= 2
    /\ Len(FinalFirstTexts(AllResults(fseen))) >= 2
    /\ \E i \in 1..Len(AllResults(fseen)) : ~AllResults(fseen)[i].is_final
    /\ \E i \in 1..Len(fout[2]) : fout[2][i] = 32

\* C7: when the response stream ends normally and no final result was
\* received, the adapter returns the empty text and, the connection
\* accepting the write, the task writes an empty transcript from its success
\* branch and logs no error.
NoFinalResult(t) == FinalFirstTexts(AllResults(received[t])) = << >>
EndsWithoutFinal(t) ==
    /\ (RemoteEnds(t) /\ NoFinalResult(t)) =>
          /\ adapterOut'[t] = <<"returned", EmptyText>>
          /\ ~writerBroken =>
                /\ written' = Append(written, TranscriptEvent(EmptyText, t, "success"))
                /\ errlog'[t] = {}
                /\ \/ tpc'[t] = "done" /\ tpath'[t] = "success"
                   \/ tpc'[t] = "write_text" /\ tpath'[t] = "none"
    /\ (WriteResume(t) /\ tpc[t] = "write_text" /\ NoFinalResult(t) /\ ~writerBroken) =>
          /\ tpc'[t] = "done"
          /\ tpath'[t] = "success"
          /\ errlog'[t] = {}
          /\ written' = written
\* C7: every normal end of a response stream without a final result returns
\* the empty text and writes it from the success branch, with no error logged.
C7_NoFinalResultIsEmptySuccess == [][\A t \in TaskIds : EndsWithoutFinal(t)]_vars

\* a response with a non-final result only, then the normal end
C7_Witness ==
    /\ received[1] = << << Result(FALSE, << <<98>> >>) >> >>
    /\ adapterOut[1] = <<"returned", EmptyText>>
    /\ TranscriptsOf(1) = << TranscriptEvent(EmptyText, 1, "success") >>
    /\ tpc[1] = "done"
    /\ tpath[1] = "success"

\* The item of a put that is suspended on queue q.
SuspendedPut(q) ==
    IF hpc \in {"put_chunk", "put_none"} /\ audio_queue = q THEN << hitem >> ELSE << >>
IsSuffix(a, b) == Len(a) <= Len(b) /\ a = SubSeq(b, Len(b) - Len(a) + 1, Len(b))

\* C8: a queue never holds more than 16 entries; every item put on it is in
\* it, or was taken from it, or is held by the suspended put; and a suspended
\* put is completed only when the queue has room, by appending its item.
QueueHoldsWhatWasPut ==
    \A q \in TaskIds :
        /\ Len(queues[q]) <= QueueMaxSize
        /\ IsSuffix(queues[q] \o SuspendedPut(q), accepted[q])
SuspendedPutWaitsForRoom ==
    hpc \in {"put_chunk", "put_none"} =>
        \/ UNCHANGED <<hpc, hitem, audio_queue>>
        \/ /\ Len(queues[audio_queue]) < QueueMaxSize
           /\ queues'[audio_queue] = Append(queues[audio_queue], hitem)
\* C8: the queue never holds more than its capacity, no accepted frame is
\* lost or reordered, and a suspended put completes only when there is room.
C8_BoundedQueueBackpressure ==
    []QueueHoldsWhatWasPut /\ [][SuspendedPutWaitsForRoom]_vars

\* the seventeenth frame of an utterance is in the full queue: its put was
\* suspended and completed after a get
C8_Witness ==
    /\ hpc = "ready"
    /\ nFrames = QueueMaxSize + 1
    /\ Len(queues[1]) = QueueMaxSize
    /\ queues[1][QueueMaxSize] = QueueMaxSize + 1

\* The await of the task in the handling of an utterance-stop raised.
StopAwaitRaised == hpc = "crashed" /\ hret \in {"raised_task", "cancelled"}
\* C9: a task cancelled while suspended in the exchange ends without an
\* exception, logs no error and writes no transcript, and the
\* utterance-stop that awaits it does not raise.
C9_CancellationIsSilent ==
    \A t \in TaskIds :
        cancelAt[t] = "exchange" =>
            /\ tpc[t] = "done"
            /\ errlog[t] = {}
            /\ TranscriptsOf(t) = << >>
            /\ ~(StopAwaitRaised /\ streaming_task = t)

\* the task was cancelled while the utterance-stop awaited it, and the stop
\* returned
C9_Witness ==
    /\ cancelAt[1] = "exchange"
    /\ StopReturned
    /\ streaming_task = None

\* C10: an audio-data event handled without a queue changes nothing and
\* lets the connection continue.
IdleChunkStep ==
    (hpc = "ready" /\ nFrames' = nFrames + 1 /\ audio_queue = None) =>
        /\ hret' = "true"
        /\ hpc' = "ready"
        /\ UNCHANGED <<language, audio_queue, streaming_task, hitem, queues, tvars,
                       written, accepted>>
\* C10: an audio chunk handled with no queue changes nothing and returns the
\* keep-going signal.
C10_IdleChunkIsDropped == [][IdleChunkStep]_vars

\* a chunk was dropped before any utterance-start
C10_Witness ==
    /\ nFrames > 0
    /\ nStarts = 0
    /\ hpc = "ready"
    /\ hret = "true"

\* The session states: IDLE has neither queue nor task, STREAMING has both.
Idle == audio_queue = None /\ streaming_task = None
Streaming == audio_queue # None /\ streaming_task # None

IdleStopStep ==
    (HandleAudioStop /\ Idle) =>
        /\ hret' = "false"
        /\ hpc' = "closed"
        /\ UNCHANGED <<language, audio_queue, streaming_task, hitem, queues, accepted,
                       tvars, written>>
\* C11: an utterance-stop handled in IDLE leaves the queue and task absent
\* and the language as it was, puts nothing on any queue, writes no event,
\* does not suspend and returns the end-of-session signal.
C11_IdleStopIsNoOp == [][IdleStopStep]_vars

\* an utterance-stop was the first event after audio that was dropped
C11_Witness ==
    /\ nStarts = 0
    /\ nFrames > 0
    /\ hpc = "closed"
    /\ hret = "false"
    /\ Idle
    /\ written = << >>

\* The call of the handling of a capability query, up to its return or to
\* the suspension of its write.
DescribeCall ==
    HandleDescribe =>
        /\ Len(written') = Len(written) + 1
        /\ SubSeq(written', 1, Len(written)) = written
        /\ written'[Len(written')].type = "info"
        /\ hpc' \in {"ready", "write_info"}
        /\ hpc' = "ready" => hret' = "true"
        /\ UNCHANGED <<language, audio_queue, streaming_task, queues, tvars>>
\* The return of the handling after its write was suspended.
DescribeReturn ==
    DescribeResume =>
        /\ hret' = "true"
        /\ hpc' = "ready"
        /\ UNCHANGED <<language, audio_queue, streaming_task, queues, tvars, written>>
\* What happens between the call and the return.
DescribeSuspended == hpc = "write_info"
ReferencesKept == UNCHANGED <<language, audio_queue, streaming_task>>
ContentsKept == UNCHANGED queues

\* C12: a capability query, in IDLE and in STREAMING, writes exactly one
\* capability-descriptor event and the session goes on; the queue reference,
\* the queue contents, the task reference and the language are the same
\* after its handling as before it.
C12_DescribeLeavesSession ==
    [][DescribeCall /\ DescribeReturn
         /\ (DescribeSuspended => ReferencesKept /\ ContentsKept)]_vars

\* The handling of an event that is not an utterance-stop, up to its return
\* or its suspension in a queue put or in a write, and the return after
\* that suspension.
NonStopEvent ==
    \/ HandleDescribe
    \/ HandleAudioStart
    \/ HandleAudioChunk
    \/ \E tag \in OverrideTags : HandleTranscribe(tag)
    \/ HandleOther
    \/ (PutResume /\ hpc = "put_chunk")
    \/ DescribeResume

NonStopStep ==
    NonStopEvent =>
        /\ hpc' \in {"ready", "put_chunk", "write_info"}
        /\ hpc' = "ready" => hret' = "true"
\* C13: the handling of every event
\* other than an utterance-stop, in every state, either is suspended in a
\* queue put or a write or returns the keep-going signal; it neither ends the session
\* nor raises.  Only an utterance-stop returns the end-of-session signal.
C13_OnlyStopEndsSession ==
    [][NonStopStep /\ (hret' = "false" /\ hret # "false" =>
                          HandleAudioStop \/ PutResume \/ AwaitResume)]_vars

\* The background tasks that were created and have not ended.
UnfinishedTasks ==
    { t \in TaskIds : tpc[t] \in {"created", "exchange", "write_text", "write_empty"} }

\* C14: at most one unfinished background task exists for the session.
C14_AtMostOneLiveTask == Cardinality(UnfinishedTasks) <= 1

\* The queues created so far: one per utterance-start handled.
CreatedQueues == 1..nStarts

\* No put follows the put of the terminal marker on a queue.
NothingAfterMarker(q) ==
    \A i \in 1..Len(accepted[q]) : accepted[q][i] = None => i = Len(accepted[q])
\* The terminal marker was put on a queue.
MarkerPut(q) == accepted[q] # << >> /\ accepted[q][Len(accepted[q])] = None

\* C15: every queue created by an utterance-start receives frames and then
\* one terminal marker, after which nothing is put on it: no put ever follows
\* a marker, and once the utterance-stop has returned every queue of the
\* session has received its marker.
C15_FramesThenOneMarker ==
    \A q \in CreatedQueues :
        /\ NothingAfterMarker(q)
        /\ StopReturned => MarkerPut(q)

\* On no queue is anything put after its terminal marker.
NoPutFollowsMarker == \A q \in CreatedQueues : NothingAfterMarker(q)

\* The frames a task's generator has taken from a queue and handed on.
FramesTakenBy(t) ==
    { sent[t][i].content : i \in { j \in 1..Len(sent[t]) : sent[t][j].kind = "audio" } }
\* The items put on the queue created for utterance q.
PutOn(q) == { accepted[q][i] : i \in 1..Len(accepted[q]) }

\* C16: every frame and every terminal marker is dequeued by the task of
\* the utterance whose queue it was put on; a replaced task takes nothing
\* from the queue that replaced its own.
C16_ReplacedTaskReusesNothing ==
    \A t \in TaskIds :
        /\ FramesTakenBy(t) \subseteq PutOn(t)
        /\ reqst[t] = "closed" => None \in PutOn(t)

\* The adapter of the current utterance has raised and its task has ended
\* after writing the empty transcript.
EndedInError ==
    /\ streaming_task # None
    /\ adapterOut[streaming_task] = <<"raised">>
    /\ tpc[streaming_task] \in Finished
ChunkPutSuspendedAfterError == hpc = "put_chunk" /\ EndedInError
ChunkPutReturned == hpc = "ready" /\ hret = "true"

\* C17: after a remote-service error the handling of an audio-data event
\* that is suspended in its queue put is eventually resumed and returns.
C17_ProducerResumedAfterError == ChunkPutSuspendedAfterError ~> ChunkPutReturned

\* The connection was closed by the client and the session's read loop ended.
SessionDestroyed == hpc = "disconnected"

\* C18: once the connection is closed and the session destroyed, no
\* background task of the session is unfinished.
C18_NoTaskOutlivesSession == SessionDestroyed => UnfinishedTasks = {}

\* The transcript-result events written so far, by any task.
TranscriptsWritten == SelectSeq(written, LAMBDA e : e.type = "transcript")

AfterStopReturned ==
    (StopReturned /\ nStarts > 0) =>
        /\ tpc[StoppedUtterance] \in Finished
        /\ TranscriptsWritten' = TranscriptsWritten
\* C19: when the utterance-stop handled in STREAMING has returned the
\* end-of-session signal, the task of its utterance has ended and no
\* transcript-result event is written from then on.
C19_TranscriptBeforeSessionEnd == [][AfterStopReturned]_vars

\* C20: in every state another task or the next event can observe, the
\* queue reference and the task reference are both present or both absent.
C20_QueueAndTaskTogether == Idle \/ Streaming

\* an utterance was started and stopped: both references were set, and both
\* were cleared when the stop returned
C20_Witness ==
    /\ nStarts = 1
    /\ StopReturned
    /\ tpc[1] = "done"
    /\ Idle

OverrideStep ==
    \A tag \in OverrideTags :
        HandleTranscribe(tag) =>
            /\ language' = (IF tag = "" THEN language ELSE tag)
            /\ hret' = "true"
            /\ hpc' = "ready"
            /\ UNCHANGED <<audio_queue, streaming_task, hitem, queues, accepted, tvars,
                           written>>
\* C21: a language override changes nothing but the stored language: the
\* queue reference, the queue contents and the task reference stay and no
\* event is written; an override without a language tag leaves the stored
\* language as it was too.
C21_OverrideChangesLanguageOnly == [][OverrideStep]_vars

\* an override was applied while a frame was waiting in the queue of a
\* running utterance
C21_Witness ==
    /\ Streaming
    /\ language = "es-ES"
    /\ Len(queues[audio_queue]) > 0
    /\ tpc[streaming_task] = "exchange"
    /\ tlang[streaming_task] = DefaultLanguage
    /\ written = << >>
    /\ hpc = "ready"
    /\ hret = "true"

====
